---- MODULE Spec2Model ----
(***************************************************************************)
(* A model of nginxfmt.Formatter (src/nginxfmt.py): the text pipeline of   *)
(* format_string.  A Python str is a sequence of one-character strings, a  *)
(* list of lines is a sequence of such sequences.                          *)
(***************************************************************************)
EXTENDS Integers, Sequences, FiniteSets, TLC

VARIABLES
    contents,        \* the argument of format_string
    indentation,     \* self.options.indentation
    pc,              \* position in format_string
    lines,           \* the local `lines` of format_string
    stack,           \* call stack of clean_lines: frames (orig_lines, index, cleaned_lines)
    steps,           \* loop iterations, calls and returns clean_lines has executed
    idx,             \* loop index of _perform_indentation
    current_indent,  \* _perform_indentation's nesting counter
    indented_lines,  \* _perform_indentation's result list
    result,          \* the value format_string returned
    pass,            \* 1: formatting the input, 2: formatting the first result again
    first            \* the result of the first pass

vars == <<contents, indentation, pc, lines, stack, steps, idx, current_indent,
          indented_lines, result, pass, first>>

----------------------------------------------------------------------------
(* Characters and character classes *)

NL == "\n"
DQ == "\""
SQ == "'"
BS == "\\"

\* str.strip() and the regex class \s, over the characters a model string can hold
Whitespace == {" ", "\t", "\n", "\r", "\f"}

\* the regex class \w
WordChars == {"a", "b", "c", "d", "e", "f", "g", "h", "i", "j", "k", "l", "m",
              "n", "o", "p", "q", "r", "s", "t", "u", "v", "w", "x", "y", "z",
              "A", "B", "C", "D", "E", "F", "G", "H", "I", "J", "K", "L", "M",
              "N", "O", "P", "Q", "R", "S", "T", "U", "V", "W", "X", "Y", "Z",
              "0", "1", "2", "3", "4", "5", "6", "7", "8", "9", "_"}

TEMPLATE_VARIABLE_OPENING_TAG ==
    <<"_", "_", "_", "T", "E", "M", "P", "L", "A", "T", "E", "_", "V", "A", "R",
      "I", "A", "B", "L", "E", "_", "O", "P", "E", "N", "I", "N", "G", "_", "T",
      "A", "G", "_", "_", "_">>

TEMPLATE_VARIABLE_CLOSING_TAG ==
    <<"_", "_", "_", "T", "E", "M", "P", "L", "A", "T", "E", "_", "V", "A", "R",
      "I", "A", "B", "L", "E", "_", "C", "L", "O", "S", "I", "N", "G", "_", "T",
      "A", "G", "_", "_", "_">>

TEMPLATE_BRACKET_OPENING_TAG ==
    <<"_", "_", "_", "T", "E", "M", "P", "L", "A", "T", "E", "_", "B", "R", "A",
      "C", "K", "E", "T", "_", "O", "P", "E", "N", "I", "N", "G", "_", "T", "A",
      "G", "_", "_", "_">>

TEMPLATE_BRACKET_CLOSING_TAG ==
    <<"_", "_", "_", "T", "E", "M", "P", "L", "A", "T", "E", "_", "B", "R", "A",
      "C", "K", "E", "T", "_", "C", "L", "O", "S", "I", "N", "G", "_", "T", "A",
      "G", "_", "_", "_">>

\* the literal of line.startswith("rewrite")
RewriteKeyword == <<"r", "e", "w", "r", "i", "t", "e">>

\* re.MULTILINE, which format_string passes as re.sub's fourth positional
\* argument: that argument is `count`, not `flags`
MULTILINE == 8

\* FormatterOptions.indentation's default
DefaultIndentation == 4

----------------------------------------------------------------------------
(* Python's string primitives *)

Min(S) == CHOOSE x \in S : \A y \in S : x <= y
Max(S) == CHOOSE x \in S : \A y \in S : x >= y

\* the first (the last) index of lo..hi that satisfies P; hi + 1 (lo - 1) if
\* none does
First(lo, hi, P(_)) ==
    IF \E k \in lo..hi : P(k)
    THEN CHOOSE k \in lo..hi : P(k) /\ \A m \in lo..(k - 1) : ~P(m)
    ELSE hi + 1

Last(lo, hi, P(_)) ==
    IF \E k \in lo..hi : P(k)
    THEN CHOOSE k \in lo..hi : P(k) /\ \A m \in (k + 1)..hi : ~P(m)
    ELSE lo - 1

\* str.strip()
Strip(s) ==
    LET NotSpace(i) == s[i] \notin Whitespace
    IN  SubSeq(s, First(1, Len(s), NotSpace), Last(1, Len(s), NotSpace))

\* str.startswith(p)
StartsWith(s, p) == Len(s) >= Len(p) /\ SubSeq(s, 1, Len(p)) = p

\* str.endswith(p)
EndsWith(s, p) == Len(s) >= Len(p) /\ SubSeq(s, Len(s) - Len(p) + 1, Len(s)) = p

\* s[i:].startswith(p), i counted from 1
MatchAt(s, i, p) == i + Len(p) - 1 <= Len(s) /\ SubSeq(s, i, i + Len(p) - 1) = p

\* the first index from j on whose character is outside the class S
SkipWhile(s, j, S) ==
    LET Outside(k) == s[k] \notin S
    IN  IF j > Len(s) THEN Len(s) + 1 ELSE First(j, Len(s), Outside)

\* str.split(c) and re.split(c, s) for a one-character separator c
RECURSIVE Split(_, _)
Split(s, c) ==
    LET IsSep(i) == s[i] = c
        k        == First(1, Len(s), IsSep)
    IN  IF k > Len(s) THEN <<s>>
        ELSE <<SubSeq(s, 1, k - 1)>> \o Split(SubSeq(s, k + 1, Len(s)), c)

\* sep.join(parts)
RECURSIVE Join(_, _)
Join(parts, sep) ==
    IF parts = <<>> THEN <<>>
    ELSE IF Len(parts) = 1 THEN parts[1]
    ELSE parts[1] \o sep \o Join(Tail(parts), sep)

\* str.splitlines(), for text whose only line break is "\n"
SplitLines(s) ==
    LET parts == Split(s, NL)
    IN  IF parts[Len(parts)] = <<>> THEN SubSeq(parts, 1, Len(parts) - 1) ELSE parts

\* str.replace(pat, rep): every non-overlapping occurrence, left to right
RECURSIVE Replace(_, _, _)
Replace(s, pat, rep) ==
    LET Found(k) == MatchAt(s, k, pat)
        i        == First(1, Len(s), Found)
    IN  IF i > Len(s) THEN s
        ELSE SubSeq(s, 1, i - 1) \o rep
             \o Replace(SubSeq(s, i + Len(pat), Len(s)), pat, rep)

\* str.count(c)
Count(s, c) == Cardinality({i \in 1..Len(s) : s[i] = c})

\* [f for f in parts if f != ""]
RECURSIVE NonEmpty(_)
NonEmpty(parts) ==
    IF parts = <<>> THEN <<>>
    ELSE (IF parts[1] = <<>> THEN <<>> ELSE <<parts[1]>>) \o NonEmpty(Tail(parts))

\* ' ' * n
Spaces(n) == [i \in 1..n |-> " "]

----------------------------------------------------------------------------
(* Formatter._strip_line *)

\* re.sub(r'[\s]+', ' ', part)
RECURSIVE CollapseWhitespace(_)
CollapseWhitespace(s) ==
    LET IsSpace(k) == s[k] \in Whitespace
        i          == First(1, Len(s), IsSpace)
    IN  IF i > Len(s) THEN s
        ELSE SubSeq(s, 1, i - 1) \o <<" ">>
             \o CollapseWhitespace(SubSeq(s, SkipWhile(s, i, Whitespace), Len(s)))

strip_line(single_line) ==
    LET stripped == Strip(single_line)
        parts    == Split(stripped, DQ)
        \* within_quotes is False for parts 1, 3, ... and True for parts 2, 4, ...
        cleaned  == [k \in 1..Len(parts) |->
                        IF k % 2 = 0 THEN parts[k] ELSE CollapseWhitespace(parts[k])]
    IN  IF StartsWith(stripped, <<"#">>) THEN stripped
        ELSE Join(cleaned, <<DQ>>)

(* Formatter._count_multi_semicolon: the pair (q, c) *)
count_multi_semicolon(single_line) ==
    LET stripped == Strip(single_line)
        parts    == Split(stripped, DQ)
        outside  == {k \in 1..Len(parts) : k % 2 = 1}
        RECURSIVE Sum(_)
        Sum(K) == IF K = {} THEN 0
                  ELSE LET k == Min(K) IN Count(parts[k], ";") + Sum(K \ {k})
    IN  IF StartsWith(stripped, <<"#">>) THEN <<0, 0>>
        ELSE <<IF Len(parts) >= 2 THEN 1 ELSE 0, Sum(outside)>>

(* Formatter.multi_semicolon *)
multi_semicolon(single_line) ==
    LET stripped == Strip(single_line)
        parts    == Split(stripped, DQ)
        broken   == [k \in 1..Len(parts) |->
                        IF k % 2 = 0 THEN parts[k]
                        ELSE Replace(parts[k], <<";">>, <<";", NL>>)]
    IN  IF StartsWith(stripped, <<"#">>) THEN stripped
        ELSE Join(broken, <<DQ>>)

----------------------------------------------------------------------------
(* Template tags *)

\* One attempt of the regex \${\s*(\w+)\s*} at index i: the captured name and
\* the index after the match.  \s, \w and "}" are disjoint, so the greedy
\* match is the only one.
VariableMatch(s, i) ==
    LET j1 == SkipWhile(s, i + 2, Whitespace)
        j2 == SkipWhile(s, j1, WordChars)
        j3 == SkipWhile(s, j2, Whitespace)
    IN  IF MatchAt(s, i, <<"$", "{">>) /\ j2 > j1 /\ MatchAt(s, j3, <<"}">>)
        THEN [ok |-> TRUE, name |-> SubSeq(s, j1, j2 - 1), next |-> j3 + 1]
        ELSE [ok |-> FALSE, name |-> <<>>, next |-> i + 1]

(* Formatter.apply_variable_template_tags: re.sub replaces the leftmost match *)
(* and goes on after it                                                      *)
RECURSIVE apply_variable_template_tags(_)
apply_variable_template_tags(line) ==
    LET Found(k) == VariableMatch(line, k).ok
        i        == First(1, Len(line), Found)
        m        == VariableMatch(line, i)
    IN  IF i > Len(line) THEN line
        ELSE SubSeq(line, 1, i - 1)
             \o TEMPLATE_VARIABLE_OPENING_TAG \o m.name \o TEMPLATE_VARIABLE_CLOSING_TAG
             \o apply_variable_template_tags(SubSeq(line, m.next, Len(line)))

\* One attempt of the regex OPENING_TAG \s*(\w+)\s* CLOSING_TAG at index i.
\* The closing tag is made of \w characters, so the greedy \w+ runs over it and
\* backtracks: the match ends at the LAST closing tag that the run of word
\* characters (or the whitespace after it) reaches.
TagMatch(s, i) ==
    LET j1 == SkipWhile(s, i + Len(TEMPLATE_VARIABLE_OPENING_TAG), Whitespace)
        j2 == SkipWhile(s, j1, WordChars)
        \* \w+ ends before index k, and \s* CLOSING_TAG matches from k on
        Closes(k) ==
            MatchAt(s, SkipWhile(s, k, Whitespace), TEMPLATE_VARIABLE_CLOSING_TAG)
        e  == Last(j1 + 1, j2, Closes)
    IN  IF MatchAt(s, i, TEMPLATE_VARIABLE_OPENING_TAG) /\ e > j1
        THEN [ok |-> TRUE, name |-> SubSeq(s, j1, e - 1),
              next |-> SkipWhile(s, e, Whitespace) + Len(TEMPLATE_VARIABLE_CLOSING_TAG)]
        ELSE [ok |-> FALSE, name |-> <<>>, next |-> i + 1]

(* Formatter.strip_variable_template_tags *)
RECURSIVE strip_variable_template_tags(_)
strip_variable_template_tags(line) ==
    LET Found(k) == TagMatch(line, k).ok
        i        == First(1, Len(line), Found)
        m        == TagMatch(line, i)
    IN  IF i > Len(line) THEN line
        ELSE SubSeq(line, 1, i - 1) \o <<"$", "{">> \o m.name \o <<"}">>
             \o strip_variable_template_tags(SubSeq(line, m.next, Len(line)))

(* Formatter.reverse_in_quotes_status *)
reverse_in_quotes_status(status) == IF status THEN FALSE ELSE TRUE

\* in_quotes once the character loop of apply_bracket_template_tags has read
\* line[i]: it starts False and is reversed at every quote character whose
\* last_char is not a backslash
InQuotesAt(line, i) ==
    LET Reverses(j) == line[j] \in {SQ, DQ} /\ (j = 1 \/ line[j - 1] # BS)
        n           == Cardinality({j \in 1..i : Reverses(j)})
    IN  IF n % 2 = 1 THEN reverse_in_quotes_status(FALSE) ELSE FALSE

\* the character loop of apply_bracket_template_tags, from index i on: the
\* characters up to the next brace read in quotes, its tag, and the rest
RECURSIVE TagBracketsFrom(_, _)
TagBracketsFrom(line, i) ==
    LET Tagged(k) == line[k] \in {"{", "}"} /\ InQuotesAt(line, k)
        k         == First(i, Len(line), Tagged)
    IN  IF k > Len(line) THEN SubSeq(line, i, Len(line))
        ELSE SubSeq(line, i, k - 1)
             \o (IF line[k] = "{" THEN TEMPLATE_BRACKET_OPENING_TAG
                 ELSE TEMPLATE_BRACKET_CLOSING_TAG)
             \o TagBracketsFrom(line, k + 1)

(* Formatter.apply_bracket_template_tags *)
apply_bracket_template_tags(ls) ==
    [k \in 1..Len(ls) |->
        IF StartsWith(ls[k], <<"#">>) THEN ls[k]
        ELSE TagBracketsFrom(ls[k], 1)]

(* Formatter.strip_bracket_template_tags *)
strip_bracket_template_tags(content) ==
    Replace(Replace(content, TEMPLATE_BRACKET_OPENING_TAG, <<"{">>),
            TEMPLATE_BRACKET_CLOSING_TAG, <<"}">>)

----------------------------------------------------------------------------
(* Formatter.clean_lines, one line at a time *)

\* re.split(r"([{}])", line): the pieces and the braces between them
RECURSIVE SplitBraces(_)
SplitBraces(s) ==
    LET IsBrace(i) == s[i] \in {"{", "}"}
        k          == First(1, Len(s), IsBrace)
    IN  IF k > Len(s) THEN <<s>>
        ELSE <<SubSeq(s, 1, k - 1), <<s[k]>>>> \o SplitBraces(SubSeq(s, k + 1, Len(s)))

\* the loop variable `line` after lines 157-158
CleanedLine(orig_line) == apply_variable_template_tags(strip_line(orig_line))

\* "recurse": the line is split and clean_lines calls itself (lines 167-172);
\* "emit": the line's output is appended to cleaned_lines
CleanKind(line) ==
    LET qc == count_multi_semicolon(line)
    IN  IF line = <<>> \/ StartsWith(line, <<"#">>) THEN "emit"
        ELSE IF qc[2] > 1 THEN "recurse"
        ELSE "emit"

\* Fragments that cuts the line at its first semicolon only
FragmentsAtFirst(line) ==
    LET IsSemicolon(i) == line[i] = ";"
        k              == First(1, Len(line), IsSemicolon)
    IN  NonEmpty(<<SubSeq(line, 1, k), SubSeq(line, k + 1, Len(line))>>)

\* the argument of the recursive call, lines 168-169 and 171-172
Fragments(line) ==
    LET qc == count_multi_semicolon(line)
    IN  IF qc[1] = 1
        THEN SplitLines(multi_semicolon(line))
        ELSE LET newlines == NonEmpty(Split(line, ";"))
             IN  [k \in 1..Len(newlines) |-> newlines[k] \o <<";">>]

\* what a line that is not split adds to cleaned_lines (lines 159-164, 174-179)
Emitted(line) ==
    IF line = <<>> THEN << <<>> >>
    ELSE IF StartsWith(line, <<"#">>) THEN <<strip_variable_template_tags(line)>>
    ELSE IF StartsWith(line, RewriteKeyword) THEN <<strip_variable_template_tags(line)>>
    ELSE LET pieces == NonEmpty(SplitBraces(line))
         IN  [k \in 1..Len(pieces) |-> Strip(strip_variable_template_tags(pieces[k]))]

----------------------------------------------------------------------------
(* Formatter._join_opening_bracket *)

RECURSIVE JoinFrom(_, _, _)
JoinFrom(ls, i, modified_lines) ==
    IF i > Len(ls) THEN modified_lines
    ELSE IF i > 1 /\ ls[i] = <<"{">>
         THEN JoinFrom(ls, i + 1,
                  [modified_lines EXCEPT ![Len(modified_lines)] = @ \o <<" ", "{">>])
         ELSE JoinFrom(ls, i + 1, Append(modified_lines, ls[i]))

join_opening_bracket(ls) == JoinFrom(ls, 1, <<>>)

----------------------------------------------------------------------------
(* The three re.sub calls of format_string, lines 224-225.  Each is called   *)
(* with count = re.MULTILINE and no flags.                                    *)

\* re.sub(r'\n{3,}', '\n\n\n', text, count)
RECURSIVE SquashNewlines(_, _)
SquashNewlines(s, count) ==
    LET Found(k) == MatchAt(s, k, <<NL, NL, NL>>)
        i        == First(1, Len(s), Found)
    IN  IF count = 0 \/ i > Len(s) THEN s
        ELSE SubSeq(s, 1, i - 1) \o <<NL, NL, NL>>
             \o SquashNewlines(SubSeq(s, SkipWhile(s, i, {NL}), Len(s)), count - 1)

\* re.sub(r'^\n', '', text, count): without re.MULTILINE ^ is the start of text
StripLeadingNewline(s, count) ==
    IF count > 0 /\ MatchAt(s, 1, <<NL>>) THEN Tail(s) ELSE s

\* re.sub(r'\n$', '', text, count): without re.MULTILINE $ matches at the end
\* of text and before a newline that ends it, so two newlines can match
StripTrailingNewline(s, count) ==
    LET n       == Len(s)
        matches == {i \in 1..n : s[i] = NL /\ (i = n \/ (i = n - 1 /\ s[n] = NL))}
        removed == {i \in matches : Cardinality({k \in matches : k < i}) < count}
    \* the matches are the last characters of s and are all "\n"
    IN  SubSeq(s, 1, n - Cardinality(removed))

\* lines 221-227: from the indented lines to the returned text
Finish(ls) ==
    LET text0 == strip_bracket_template_tags(Join(ls, <<NL>>))
        text1 == SquashNewlines(text0, MULTILINE)
        text2 == StripLeadingNewline(text1, MULTILINE)
        text3 == StripTrailingNewline(text2, MULTILINE)
    IN  text3 \o <<NL>>

----------------------------------------------------------------------------
(* Formatter._perform_indentation, one line at a time *)

\* Dedented without the guard `current_indent > 0`
DedentedUnguarded(line, indent) ==
    IF ~StartsWith(line, <<"#">>) /\ EndsWith(line, <<"}">>)
    THEN indent - 1 ELSE indent

\* lines 199-200: the counter the line is indented with
Dedented(line, indent) ==
    IF ~StartsWith(line, <<"#">>) /\ EndsWith(line, <<"}">>) /\ indent > 0
    THEN indent - 1 ELSE indent

\* lines 202-205: the line appended to indented_lines
IndentedLine(line, indent, width) ==
    IF line # <<>> THEN Spaces(indent * width) \o line ELSE <<>>

\* lines 207-208: the counter after the line
Nested(line, indent) ==
    IF ~StartsWith(line, <<"#">>) /\ EndsWith(line, <<"{">>)
    THEN indent + 1 ELSE indent

----------------------------------------------------------------------------
(* The state machine: format_string, and a caller that formats the result    *)
(* once more.                                                                *)

Frame(ls) == [orig_lines |-> ls, i |-> 1, cleaned_lines |-> <<>>]

Top == stack[Len(stack)]

\* lines 215-216, and the call of clean_lines
ApplyBracketTags ==
    /\ pc = "start"
    /\ lines' = apply_bracket_template_tags(SplitLines(contents))
    /\ stack' = <<Frame(lines')>>
    /\ steps' = 0
    /\ pc' = "clean"
    /\ UNCHANGED <<contents, indentation, idx, current_indent, indented_lines,
                   result, pass, first>>

\* one iteration of clean_lines' loop that appends to cleaned_lines
CleanEmit ==
    /\ pc = "clean"
    /\ Top.i <= Len(Top.orig_lines)
    /\ LET line == CleanedLine(Top.orig_lines[Top.i])
       IN  /\ CleanKind(line) = "emit"
           /\ stack' = [stack EXCEPT ![Len(stack)] =
                            [@ EXCEPT !.i = @ + 1,
                                      !.cleaned_lines = @ \o Emitted(line)]]
    /\ steps' = steps + 1
    /\ UNCHANGED <<contents, indentation, pc, lines, idx, current_indent,
                   indented_lines, result, pass, first>>

\* one iteration of clean_lines' loop that calls clean_lines on the split line
CleanCall ==
    /\ pc = "clean"
    /\ Top.i <= Len(Top.orig_lines)
    /\ LET line == CleanedLine(Top.orig_lines[Top.i])
       IN  /\ CleanKind(line) = "recurse"
           /\ stack' = Append(stack, Frame(Fragments(line)))
    /\ steps' = steps + 1
    /\ UNCHANGED <<contents, indentation, pc, lines, idx, current_indent,
                   indented_lines, result, pass, first>>

\* a recursive call returns: cleaned_lines.extend(...) in the caller
CleanReturn ==
    /\ pc = "clean"
    /\ Top.i > Len(Top.orig_lines)
    /\ Len(stack) > 1
    /\ stack' = [SubSeq(stack, 1, Len(stack) - 1) EXCEPT ![Len(stack) - 1] =
                    [@ EXCEPT !.i = @ + 1,
                              !.cleaned_lines = @ \o Top.cleaned_lines]]
    /\ steps' = steps + 1
    /\ UNCHANGED <<contents, indentation, pc, lines, idx, current_indent,
                   indented_lines, result, pass, first>>

\* the outermost clean_lines returns to format_string (line 217)
CleanDone ==
    /\ pc = "clean"
    /\ Top.i > Len(Top.orig_lines)
    /\ Len(stack) = 1
    /\ lines' = Top.cleaned_lines
    /\ stack' = <<>>
    /\ steps' = steps + 1
    /\ pc' = "join"
    /\ UNCHANGED <<contents, indentation, idx, current_indent, indented_lines,
                   result, pass, first>>

\* line 218, and the entry of _perform_indentation (lines 195-197)
JoinOpeningBracket ==
    /\ pc = "join"
    /\ lines' = join_opening_bracket(lines)
    /\ idx' = 1
    /\ current_indent' = 0
    /\ indented_lines' = <<>>
    /\ pc' = "indent"
    /\ UNCHANGED <<steps, contents, indentation, stack, result, pass, first>>

\* one iteration of _perform_indentation's loop
IndentLine ==
    /\ pc = "indent"
    /\ idx <= Len(lines)
    /\ LET line == lines[idx]
           d    == Dedented(line, current_indent)
       IN  /\ indented_lines' = Append(indented_lines, IndentedLine(line, d, indentation))
           /\ current_indent' = Nested(line, d)
    /\ idx' = idx + 1
    /\ UNCHANGED <<steps, contents, indentation, pc, lines, stack, result, pass, first>>

\* _perform_indentation returns (lines 210, 219)
IndentReturn ==
    /\ pc = "indent"
    /\ idx > Len(lines)
    /\ lines' = indented_lines
    /\ pc' = "finish"
    /\ UNCHANGED <<steps, contents, indentation, stack, idx, current_indent,
                   indented_lines, result, pass, first>>

\* lines 221-227
FinishFormat ==
    /\ pc = "finish"
    /\ result' = Finish(lines)
    /\ pc' = "done"
    /\ UNCHANGED <<steps, contents, indentation, lines, stack, idx, current_indent,
                   indented_lines, pass, first>>

\* the caller formats the text it got once more
Reformat ==
    /\ pc = "done"
    /\ pass = 1
    /\ first' = result
    /\ contents' = result
    /\ pass' = 2
    /\ pc' = "start"
    /\ UNCHANGED <<steps, indentation, lines, stack, idx, current_indent,
                   indented_lines, result>>

Next ==
    \/ ApplyBracketTags
    \/ CleanEmit
    \/ CleanCall
    \/ CleanReturn
    \/ CleanDone
    \/ JoinOpeningBracket
    \/ IndentLine
    \/ IndentReturn
    \/ FinishFormat
    \/ Reformat

----------------------------------------------------------------------------
(* Inputs *)

RECURSIVE Concat(_)
Concat(parts) == IF parts = <<>> THEN <<>> ELSE parts[1] \o Concat(Tail(parts))

\* every text made of at most n pieces of T
Texts(T, n) == {Concat(ts) : ts \in UNION {[1..k -> T] : k \in 0..n}}

\* format_string(text) is called on a Formatter with the default options
InitWith(inputs) ==
    /\ contents \in inputs
    /\ indentation = DefaultIndentation
    /\ pc = "start"
    /\ lines = <<>>
    /\ stack = <<>>
    /\ steps = 0
    /\ idx = 1
    /\ current_indent = 0
    /\ indented_lines = <<>>
    /\ result = <<>>
    /\ pass = 1
    /\ first = <<>>

\* _perform_indentation(ls) is called on a Formatter whose indentation is width
InitIndentWith(lists, widths) ==
    /\ contents = <<>>
    /\ indentation \in widths
    /\ pc = "indent"
    /\ lines \in lists
    /\ stack = <<>>
    /\ steps = 0
    /\ idx = 1
    /\ current_indent = 0
    /\ indented_lines = <<>>
    /\ result = <<>>
    /\ pass = 1
    /\ first = <<>>

\* clean_lines(ls) is called
InitCleanWith(lists) ==
    /\ contents = <<>>
    /\ indentation = DefaultIndentation
    /\ pc = "clean"
    /\ lines \in lists
    /\ stack = <<Frame(lines)>>
    /\ steps = 0
    /\ idx = 1
    /\ current_indent = 0
    /\ indented_lines = <<>>
    /\ result = <<>>
    /\ pass = 1
    /\ first = <<>>

----------------------------------------------------------------------------
(* Spec: statements and blank lines *)

MaxLen == 6

Init == InitWith(Texts({<<"a">>, <<";">>, <<NL>>}, MaxLen))

Spec == Init /\ [][Next]_vars

----------------------------------------------------------------------------
(* SpecBlock: blocks written on one line *)

MaxBlockTokens == 5

ServerBlock ==
    <<"s", "e", "r", "v", "e", "r", "{", "l", "i", "s", "t", "e", "n", " ", "8",
      "0", ";", "s", "e", "r", "v", "e", "r", "_", "n", "a", "m", "e", " ", "a",
      ".", "c", "o", "m", ";", "}">>

BlockTokens == {<<"a">>, <<"{">>, <<"}">>, <<"b", ";">>, <<"c", " ", "d", ";">>}

InitBlock == InitWith(Texts(BlockTokens, MaxBlockTokens) \cup {ServerBlock})

SpecBlock == InitBlock /\ [][Next]_vars

----------------------------------------------------------------------------
(* SpecQuote: quoted literals *)

MaxQuoteLen == 4

AddHeader ==
    <<"a", "d", "d", "_", "h", "e", "a", "d", "e", "r", " ", "X", "-", "T", "e",
      "s", "t", " ", "\"", "{", "l", "i", "t", "e", "r", "a", "l", "}", "\"", ";">>

QuoteTokens == {<<"a">>, <<" ">>, <<SQ>>, <<DQ>>, <<"{">>, <<";">>}

InitQuote == InitWith(Texts(QuoteTokens, MaxQuoteLen) \cup {AddHeader})

SpecQuote == InitQuote /\ [][Next]_vars

----------------------------------------------------------------------------
(* SpecVar: template variables *)

MaxVarTokens == 3

VarTokens == {<<"$", "{", "a", "}">>, <<"$", "{", "b", "}">>, <<"x">>, <<";">>,
              <<" ">>, <<"{">>, <<"}">>}

InitVar == InitWith(Texts(VarTokens, MaxVarTokens))

SpecVar == InitVar /\ [][Next]_vars

----------------------------------------------------------------------------
(* SpecComment: comment lines *)

MaxCommentLen == 4

SpacedReference == <<"#", " ", "$", "{", " ", "a", " ", "}">>

CommentTokens == {<<"#">>, <<"a">>, <<" ">>, <<NL>>, <<"{">>, <<";">>}

InitComment == InitWith(Texts(CommentTokens, MaxCommentLen) \cup {SpacedReference})

SpecComment == InitComment /\ [][Next]_vars

----------------------------------------------------------------------------
(* SpecIndent: _perform_indentation on its own *)

MaxIndentLines == 4

IndentLineChoices ==
    {<<>>, <<"a", ";">>, <<"a", " ", "{">>, <<"}">>, <<"#", "{">>, <<"#", "}">>}

IndentationChoices == {1, DefaultIndentation}

InitIndent ==
    InitIndentWith(UNION {[1..k -> IndentLineChoices] : k \in 0..MaxIndentLines},
                   IndentationChoices)

NextIndent == IndentLine \/ IndentReturn

SpecIndent == InitIndent /\ [][NextIndent]_vars

----------------------------------------------------------------------------
(* SpecClean: clean_lines on its own *)

MaxCleanTokens == 4

CleanTokens == {<<"a">>, <<";">>, <<DQ>>, <<" ">>, <<"#">>, <<NL>>,
                <<"$", "{", "a", "}">>}

InitClean == InitCleanWith({SplitLines(t) : t \in Texts(CleanTokens, MaxCleanTokens)})

NextClean == CleanEmit \/ CleanCall \/ CleanReturn \/ CleanDone

SpecClean == InitClean /\ [][NextClean]_vars

----------------------------------------------------------------------------
(* What the claims speak of *)

\* pat occurs in s
Contains(s, pat) == \E i \in 1..(Len(s) + 1) : MatchAt(s, i, pat)

InputLines == SplitLines(contents)

OutputLines == SplitLines(result)

\* format_string has returned the text of the input
Formatted == pc = "done" /\ pass = 1

\* a quote character that no backslash precedes
UnescapedQuote(line, i) ==
    line[i] \in {SQ, DQ} /\ (i = 1 \/ line[i - 1] # BS)

\* the quoted literals of a line, quotes included: from an unescaped quote to
\* the next unescaped quote of the same kind
RECURSIVE QuotedSegments(_, _)
QuotedSegments(line, from) ==
    LET opens == {k \in from..Len(line) : UnescapedQuote(line, k)}
    IN  IF opens = {} THEN {}
        ELSE LET o      == Min(opens)
                 closes == {k \in (o + 1)..Len(line) :
                               UnescapedQuote(line, k) /\ line[k] = line[o]}
             IN  IF closes = {} THEN {}
                 ELSE {SubSeq(line, o, Min(closes))}
                      \cup QuotedSegments(line, Min(closes) + 1)

\* the index is inside a quoted literal of its line: an odd number of
\* unescaped quotes precede it
Quoted(line, i) ==
    Cardinality({k \in 1..(i - 1) : UnescapedQuote(line, k)}) % 2 = 1

\* how many times c stands outside quoted literals in the text
RECURSIVE UnquotedInLines(_, _)
UnquotedInLines(ls, c) ==
    IF ls = <<>> THEN 0
    ELSE Cardinality({i \in 1..Len(ls[1]) : ls[1][i] = c /\ ~Quoted(ls[1], i)})
         + UnquotedInLines(Tail(ls), c)

Unquoted(text, c) == UnquotedInLines(SplitLines(text), c)

Sentinels == {TEMPLATE_VARIABLE_OPENING_TAG, TEMPLATE_VARIABLE_CLOSING_TAG,
              TEMPLATE_BRACKET_OPENING_TAG, TEMPLATE_BRACKET_CLOSING_TAG}

\* the names of the ${name} references of a text
References(text) ==
    {SubSeq(text, i + 2, SkipWhile(text, i + 2, WordChars) - 1) :
        i \in {k \in 1..Len(text) :
                 /\ MatchAt(text, k, <<"$", "{">>)
                 /\ SkipWhile(text, k + 2, WordChars) > k + 2
                 /\ MatchAt(text, SkipWhile(text, k + 2, WordChars), <<"}">>)}}

\* the canonical form of name{s1;s2;}
Canonical(name, s1, s2) ==
    name \o <<" ", "{", NL>>
    \o Spaces(indentation) \o s1 \o <<";", NL>>
    \o Spaces(indentation) \o s2 \o <<";", NL>>
    \o <<"}", NL>>

BlockNames == {<<"a">>, <<"s", "e", "r", "v", "e", "r">>}

BlockStatements ==
    {<<"b">>, <<"c", " ", "d">>,
     <<"l", "i", "s", "t", "e", "n", " ", "8", "0">>,
     <<"s", "e", "r", "v", "e", "r", "_", "n", "a", "m", "e", " ", "a", ".", "c", "o", "m">>}

\* a line that _perform_indentation takes for a closing / an opening line
ClosingLine(line) == Len(line) > 0 /\ line[1] # "#" /\ line[Len(line)] = "}"
OpeningLine(line) == Len(line) > 0 /\ line[1] # "#" /\ line[Len(line)] = "{"

\* the nesting counter as the claim describes it: before line k, on line k,
\* and after line k
RECURSIVE DepthAfter(_, _)
DepthOn(ls, k) ==
    LET before == DepthAfter(ls, k - 1)
    IN  IF ClosingLine(ls[k]) /\ before > 0 THEN before - 1 ELSE before

DepthAfter(ls, k) ==
    IF k = 0 THEN 0
    ELSE IF OpeningLine(ls[k]) THEN DepthOn(ls, k) + 1 ELSE DepthOn(ls, k)

Openers(ls) == Cardinality({k \in 1..Len(ls) : OpeningLine(ls[k])})
Closers(ls) == Cardinality({k \in 1..Len(ls) : ClosingLine(ls[k])})

\* semicolons outside double quotes: an even number of '"' precede them
SemicolonsOutsideQuotes(line) ==
    Cardinality({i \in 1..Len(line) :
                    line[i] = ";" /\ Count(SubSeq(line, 1, i), DQ) % 2 = 0})

----------------------------------------------------------------------------
(* The claims *)

\* C1: formatting is idempotent: formatting the result of format_string again
\* returns that same result.
C1_Idempotent == (pc = "done" /\ pass = 2) => result = first

\* C2: a block written on one line, name{s1;s2;}, is formatted to the opener
\* line, each statement on its own line one level deeper and the closing brace
\* alone at depth 0, with no additional line; server{listen 80;server_name
\* a.com;} gives exactly its four lines.
C2_Relinearized ==
    Formatted =>
        \A name \in BlockNames : \A s1, s2 \in BlockStatements :
            contents = name \o <<"{">> \o s1 \o <<";">> \o s2 \o <<";", "}">>
                => result = Canonical(name, s1, s2)

\* C3: the result of format_string ends with exactly one newline: its last
\* character is a newline and the one before it, if any, is not.
C3_OneTrailingNewline ==
    pc = "done" =>
        /\ Len(result) >= 1
        /\ result[Len(result)] = NL
        /\ Len(result) >= 2 => result[Len(result) - 1] # NL

\* C4: the result of format_string holds no run of 3 or more consecutive
\* newlines.
C4_NoTripleNewline == pc = "done" => ~Contains(result, <<NL, NL, NL>>)

\* C5: every quoted literal of an input line (between a matching pair of
\* unescaped single or double quotes) stands unchanged, on one line, in the
\* output.
C5_QuotedPreserved ==
    Formatted =>
        \A k \in 1..Len(InputLines) : \A seg \in QuotedSegments(InputLines[k], 1) :
            \E o \in 1..Len(OutputLines) : Contains(OutputLines[o], seg)

\* C6: for an input that holds none of the four sentinel strings the output
\* holds none either, and every ${name} reference of the input stands in the
\* output as ${name}.
C6_TagsRestored ==
    (Formatted /\ \A t \in Sentinels : ~Contains(contents, t)) =>
        /\ \A t \in Sentinels : ~Contains(result, t)
        /\ \A name \in References(contents) :
               Contains(result, <<"$", "{">> \o name \o <<"}">>)

\* C7: every input line whose first non-whitespace character is '#' is an
\* output line that holds, after its indentation, the trimmed input line and
\* nothing else.
C7_CommentsKept ==
    Formatted =>
        \A k \in 1..Len(InputLines) :
            StartsWith(Strip(InputLines[k]), <<"#">>) =>
                \E o \in 1..Len(OutputLines) : \E n \in 0..Len(OutputLines[o]) :
                    OutputLines[o] = Spaces(n) \o Strip(InputLines[k])

\* C8: the output holds as many '{' outside quoted literals as the input, and
\* as many '}'.
C8_BraceBalance ==
    Formatted =>
        /\ Unquoted(result, "{") = Unquoted(contents, "{")
        /\ Unquoted(result, "}") = Unquoted(contents, "}")

\* C9 as stated: the counter starts at 0 and is never negative; every line is
\* indented by indentation x counter spaces, an empty line stays empty; a
\* closing line lowers the counter before it is indented, an opening line
\* raises it after, a comment changes nothing; and unbalanced braces leave the
\* counter non-zero at the end.
C9_UnbalancedNonZero ==
    (pc = "indent" /\ idx > Len(lines) /\ Openers(lines) # Closers(lines))
        => current_indent # 0

\* C9 as amended: as C9, but at the end it is more opening than closing lines
\* that leave the counter non-zero; a closing line met at depth 0 is ignored.
C9_Indentation ==
    pc = "indent" =>
        /\ current_indent >= 0
        /\ current_indent = DepthAfter(lines, idx - 1)
        /\ Len(indented_lines) = idx - 1
        /\ \A k \in 1..Len(indented_lines) :
               indented_lines[k] =
                   IF lines[k] = <<>> THEN <<>>
                   ELSE Spaces(indentation * DepthOn(lines, k)) \o lines[k]
        /\ (idx > Len(lines) /\ Openers(lines) > Closers(lines)) => current_indent > 0

\* C9's case: a block was opened and closed at depth 0 and another is left open
\* at the end of the lines.
C9_Witness ==
    /\ pc = "indent"
    /\ idx > Len(lines)
    /\ current_indent > 0
    /\ \E k \in 2..Len(lines) :
           /\ OpeningLine(lines[k - 1])
           /\ lines[k] = <<"}">>
           /\ indented_lines[k] = <<"}">>

\* the steps clean_lines takes for one line if no fragment is split again:
\* one to emit it, or a call, a step for each fragment and a return
LineSteps(orig_line) ==
    LET line == CleanedLine(orig_line)
    IN  IF CleanKind(line) = "emit" THEN 1 ELSE 2 + Len(Fragments(line))

RECURSIVE StepsFrom(_, _)
StepsFrom(ls, k) ==
    IF k > Len(ls) THEN 0 ELSE LineSteps(ls[k]) + StepsFrom(ls, k + 1)

\* the steps left until the outermost clean_lines has returned: its return,
\* the lines the running call has not cleaned, and for each suspended caller
\* the return it waits for and the lines after its current one
RECURSIVE StepsLeftBelow(_)
StepsLeftBelow(d) ==
    IF d = 0 THEN 0
    ELSE 1 + StepsFrom(stack[d].orig_lines, stack[d].i + 1) + StepsLeftBelow(d - 1)

StepsLeft ==
    IF pc # "clean" THEN 0
    ELSE 1 + StepsFrom(Top.orig_lines, Top.i) + StepsLeftBelow(Len(stack) - 1)

\* what C10 says of every recursive call that is running
C10_Calls ==
    /\ Len(stack) <= 2
    /\ \A d \in 2..Len(stack) :
           LET line == CleanedLine(stack[d - 1].orig_lines[stack[d - 1].i])
           IN  /\ SemicolonsOutsideQuotes(line) > 1
               /\ \A k \in 1..Len(stack[d].orig_lines) :
                      /\ Len(stack[d].orig_lines[k]) < Len(line)
                      /\ SemicolonsOutsideQuotes(stack[d].orig_lines[k]) <= 1

\* C10: clean_lines terminates (the steps it has taken and the steps it has
\* left add up to a number that its argument fixes); it calls itself only on
\* a line with more than one semicolon outside double quotes, every fragment
\* it passes on is strictly shorter than that line and has at most one such
\* semicolon, so a recursive call never recurses again.
C10_Terminates ==
    /\ C10_Calls
    /\ pc = "clean" => steps + StepsLeft = 1 + StepsFrom(lines, 1)

\* C10's case: a recursive call has cleaned its fragments and is about to return
C10_Witness ==
    /\ pc = "clean"
    /\ Len(stack) = 2
    /\ Top.i > Len(Top.orig_lines)
    /\ Len(Top.cleaned_lines) >= 2

====
